---- MODULE Spec2Model ----
(***************************************************************************)
(* The instruction-counter injector of nf/nvm/v8/lib/instruction_counter.js *)
(* (processScript): the walk of the parsed program, the injection-record    *)
(* store, and the generation of the traceable source.                       *)
(*                                                                          *)
(* Strings are sequences of one-character strings; an offset is an index    *)
(* into such a sequence, counted from 0 as in the source.                   *)
(***************************************************************************)
EXTENDS Integers, Sequences, FiniteSets, TLC

VARIABLES
    source,             \* the argument of processScript
    ast,                \* the parsed program: nodes in visiting order
    pc,                 \* "traverse", "generate" or "done"
    work,               \* the pending traverse calls, next first
    injection_records,  \* the Map pos -> [value, func]
    recorded,           \* history: tracked node -> the pos it was recorded at
    ordered_records,    \* the records still to be emitted, ascending
    start_offset,
    traceable_source,
    result,             \* "", "returned", or the error thrown
    calls,              \* record store alone: the calls, in the order made
    ncalled             \* record store alone: how many calls were made

vars == <<source, ast, pc, work, injection_records, recorded, ordered_records,
          start_offset, traceable_source, result, calls, ncalled>>

-----------------------------------------------------------------------------
(* Bounds of the model. *)

\* the most statements of a program
MaxStmts == 2
\* the most blanks between two statements of a program
MaxGap == 1
\* the most bare bodies nested in one another
MaxNest == 2
\* the most calls made on a record store
MaxCalls == 3
\* the positions the calls on a record store use are 0 .. MaxPos
MaxPos == 1

-----------------------------------------------------------------------------
(* Text. *)

IC == "_instruction_counter"

NameText(n) ==
    IF n = IC
    THEN <<"_","i","n","s","t","r","u","c","t","i","o","n",
           "_","c","o","u","n","t","e","r">>
    ELSE <<n>>

\* source.slice(from, to), 0 <= from
Slice(s, from, to) ==
    IF to <= from THEN <<>> ELSE SubSeq(s, from + 1, to)

DigitChar(d) == <<"0","1","2","3","4","5","6","7","8","9">>[d + 1]

RECURSIVE Digits(_)
\* the decimal text of a number >= 0, as string concatenation gives it
Digits(v) ==
    IF v < 10 THEN <<DigitChar(v)>>
    ELSE Digits(v \div 10) \o <<DigitChar(v % 10)>>

-----------------------------------------------------------------------------
(* The parsed program.  A node of the tree the parser returns is written    *)
(* here with its text: lits[1], kids[1], lits[2], ..., kids[n], lits[n+1]   *)
(* is the text of the node, kids are its child nodes in the order of the    *)
(* node's keys, each with the key it sits under.  A key that holds null has *)
(* no kid; the elements of an array-valued key are kids with the same key.  *)

Mk(type, name, lits, kids) ==
    [type |-> type, name |-> name, key |-> "", lits |-> lits, kids |-> kids]

K(key, node) == [node EXCEPT !.key = key]

Blanks(n) == [i \in 1..n |-> " "]

Id(n) == Mk("Identifier", n, <<NameText(n)>>, <<>>)

Member(o, p) ==
    Mk("MemberExpression", "", << <<>>, <<".">>, <<>> >>,
       <<K("object", o), K("property", p)>>)

Update(e) ==
    Mk("UpdateExpression", "", << <<>>, <<"+","+">> >>, <<K("argument", e)>>)

Call(f) ==
    Mk("CallExpression", "", << <<>>, <<"(",")">> >>, <<K("callee", f)>>)

Assign(l, r) ==
    Mk("AssignmentExpression", "", << <<>>, <<"=">>, <<>> >>,
       <<K("left", l), K("right", r)>>)

ArrowFn(p, e) ==
    Mk("ArrowFunctionExpression", "", << <<"(">>, <<")","=",">">>, <<>> >>,
       <<K("params", p), K("body", e)>>)

Block(stmts) ==
    Mk("BlockStatement", "",
       IF Len(stmts) = 0 THEN << <<"{","}">> >>
       ELSE [i \in 1..(Len(stmts) + 1) |->
               IF i = 1 THEN <<"{">> ELSE IF i = Len(stmts) + 1 THEN <<"}">> ELSE <<>>],
       [i \in 1..Len(stmts) |-> K("body", stmts[i])])

FuncExpr(n) ==
    Mk("FunctionExpression", "",
       << <<"f","u","n","c","t","i","o","n"," ">>, <<"(",")">>, <<>> >>,
       <<K("id", Id(n)), K("body", Block(<<>>))>>)

AssignPattern(l, r) ==
    Mk("AssignmentPattern", "", << <<>>, <<"=">>, <<>> >>,
       <<K("left", l), K("right", r)>>)

ArrayPattern(e) ==
    Mk("ArrayPattern", "", << <<"[">>, <<"]">> >>, <<K("elements", e)>>)

ExprStmt(e) ==
    Mk("ExpressionStatement", "", << <<>>, <<";">> >>, <<K("expression", e)>>)

Declarator(id) ==
    Mk("VariableDeclarator", "", << <<>>, <<>> >>, <<K("id", id)>>)

DeclaratorInit(id, init) ==
    Mk("VariableDeclarator", "", << <<>>, <<"=">>, <<>> >>,
       <<K("id", id), K("init", init)>>)

\* "var d;" when semi, "var d" (the init of a for statement) otherwise
VarDecl(d, semi) ==
    Mk("VariableDeclaration", "",
       << <<"v","a","r"," ">>, IF semi THEN <<";">> ELSE <<>> >>,
       <<K("declarations", d)>>)

FuncDecl(n, body) ==
    Mk("FunctionDeclaration", "",
       << <<"f","u","n","c","t","i","o","n"," ">>, <<"(",")">>, <<>> >>,
       <<K("id", Id(n)), K("body", body)>>)

FuncDeclParam(n, p, body) ==
    Mk("FunctionDeclaration", "",
       << <<"f","u","n","c","t","i","o","n"," ">>, <<"(">>, <<")">>, <<>> >>,
       <<K("id", Id(n)), K("params", p), K("body", body)>>)

Return(e) ==
    Mk("ReturnStatement", "",
       << <<"r","e","t","u","r","n"," ">>, <<";">> >>, <<K("argument", e)>>)

Throw(e) ==
    Mk("ThrowStatement", "",
       << <<"t","h","r","o","w"," ">>, <<";">> >>, <<K("argument", e)>>)

TryCatch(p) ==
    Mk("TryStatement", "", << <<"t","r","y">>, <<>>, <<>> >>,
       <<K("block", Block(<<>>)),
         K("handler",
           Mk("CatchClause", "", << <<"c","a","t","c","h","(">>, <<")">>, <<>> >>,
              <<K("param", p), K("body", Block(<<>>))>>))>>)

ClassDecl(n) ==
    Mk("ClassDeclaration", "", << <<"c","l","a","s","s"," ">>, <<>>, <<>> >>,
       <<K("id", Id(n)),
         K("body", Mk("ClassBody", "", << <<"{","}">> >>, <<>>))>>)

If(t, c) ==
    Mk("IfStatement", "", << <<"i","f","(">>, <<")">>, <<>> >>,
       <<K("test", t), K("consequent", c)>>)

IfElse(t, c, a) ==
    Mk("IfStatement", "",
       << <<"i","f","(">>, <<")">>, <<"e","l","s","e"," ">>, <<>> >>,
       <<K("test", t), K("consequent", c), K("alternate", a)>>)

While(t, b) ==
    Mk("WhileStatement", "", << <<"w","h","i","l","e","(">>, <<")">>, <<>> >>,
       <<K("test", t), K("body", b)>>)

DoWhile(b, t) ==
    Mk("DoWhileStatement", "",
       << <<"d","o"," ">>, <<"w","h","i","l","e","(">>, <<")",";">> >>,
       <<K("body", b), K("test", t)>>)

\* for(;;)b : init, test and update are null
ForEver(b) ==
    Mk("ForStatement", "", << <<"f","o","r","(",";",";",")">>, <<>> >>,
       <<K("body", b)>>)

For(i, t, u, b) ==
    Mk("ForStatement", "",
       << <<"f","o","r","(">>, <<";">>, <<";">>, <<")">>, <<>> >>,
       <<K("init", i), K("test", t), K("update", u), K("body", b)>>)

ForIn(l, r, b) ==
    Mk("ForInStatement", "",
       << <<"f","o","r","(">>, <<" ","i","n"," ">>, <<")">>, <<>> >>,
       <<K("left", l), K("right", r), K("body", b)>>)

ForOf(l, r, b) ==
    Mk("ForOfStatement", "",
       << <<"f","o","r","(">>, <<" ","o","f"," ">>, <<")">>, <<>> >>,
       <<K("left", l), K("right", r), K("body", b)>>)

With(o, b) ==
    Mk("WithStatement", "", << <<"w","i","t","h","(">>, <<")">>, <<>> >>,
       <<K("object", o), K("body", b)>>)

\* switch(d){case t:s}
Switch(d, t, s) ==
    Mk("SwitchStatement", "",
       << <<"s","w","i","t","c","h","(">>, <<")","{">>, <<"}">> >>,
       <<K("discriminant", d),
         K("cases",
           Mk("SwitchCase", "", << <<"c","a","s","e"," ">>, <<":">>, <<>> >>,
              <<K("test", t), K("consequent", s)>>))>>)

\* the statements of a program, with gap blanks between two of them
Program(stmts, gap) ==
    Mk("Program", "",
       [i \in 1..(Len(stmts) + 1) |->
           IF 1 < i /\ i <= Len(stmts) THEN Blanks(gap) ELSE <<>>],
       [i \in 1..Len(stmts) |-> K("body", stmts[i])])

-----------------------------------------------------------------------------
(* The programs of the model. *)

IdA == Id("a")
IdIC == Id(IC)
MemA == Member(IdA, IdA)

\* expressions that stand as the left of a for-in or for-of statement
LeftSides == {IdA, MemA}

\* expressions that stand as a test, an object, a discriminant or a right
Headers == LeftSides \cup {Assign(IdA, MemA)}

SimpleBodies == {ExprStmt(IdA), ExprStmt(Update(IdA)), Block(<<ExprStmt(Update(IdA))>>)}

RECURSIVE Bodies(_)
\* the bodies that nest at most d bare bodies when they are a body themselves
Bodies(d) ==
    IF d <= 1 THEN SimpleBodies
    ELSE SimpleBodies
         \cup {If(IdA, b) : b \in Bodies(d - 1)}
         \cup {While(MemA, b) : b \in Bodies(d - 1)}

ControlStatements ==
    LET B == Bodies(MaxNest) IN
         {If(t, b) : t \in Headers, b \in B}
    \cup {IfElse(MemA, ExprStmt(IdA), b) : b \in B}
    \cup {IfElse(IdA, b, ExprStmt(Update(IdA))) : b \in SimpleBodies}
    \cup {While(MemA, b) : b \in B}
    \cup {DoWhile(b, MemA) : b \in B}
    \cup {ForEver(b) : b \in B}
    \cup {For(VarDecl(DeclaratorInit(IdA, MemA), FALSE), MemA, Update(IdA), b) :
             b \in SimpleBodies}
    \cup {ForIn(l, r, ExprStmt(IdA)) : l \in LeftSides, r \in Headers}
    \cup {ForIn(IdA, IdA, b) : b \in B}
    \cup {ForOf(l, l, ExprStmt(IdA)) : l \in LeftSides}
    \cup {With(o, ExprStmt(Update(IdA))) : o \in Headers}
    \cup {Switch(d, t, ExprStmt(Update(IdA))) : d \in Headers, t \in Headers}

SimpleStatements ==
    {ExprStmt(IdA), ExprStmt(Update(IdA)), ExprStmt(MemA),
     ExprStmt(Assign(IdA, MemA)),
     ExprStmt(Member(IdIC, IdA)), ExprStmt(Call(IdIC)), ExprStmt(Assign(IdA, IdIC)),
     VarDecl(Declarator(IdA), TRUE), VarDecl(DeclaratorInit(IdA, MemA), TRUE),
     VarDecl(DeclaratorInit(IdA, IdIC), TRUE),
     VarDecl(Declarator(IdIC), TRUE),
     VarDecl(DeclaratorInit(ArrayPattern(IdIC), IdA), TRUE),
     VarDecl(DeclaratorInit(IdA, FuncExpr(IC)), TRUE),
     FuncDecl(IC, Block(<<>>)),
     FuncDecl("a", Block(<<Return(MemA)>>)),
     FuncDeclParam("a", IdIC, Block(<<>>)),
     FuncDeclParam("a", AssignPattern(IdA, MemA), Block(<<>>)),
     ExprStmt(ArrowFn(IdIC, IdA)),
     TryCatch(IdIC),
     ClassDecl(IC),
     Throw(IdA)}

Statements == SimpleStatements \cup ControlStatements

\* the statements that follow the first one
FollowStatements ==
    {ExprStmt(Update(IdA)), VarDecl(Declarator(IdIC), TRUE),
     ForIn(MemA, IdA, ExprStmt(IdA))}

Programs ==
    {Program(<<>>, 0)}
    \cup UNION {UNION {{Program(<<s>> \o t, g) : s \in Statements, g \in 0..MaxGap} :
                       t \in [1..k -> FollowStatements]} :
                k \in 0..(MaxStmts - 1)}

-----------------------------------------------------------------------------
(* The tree as the walk sees it: the nodes in the order traverse visits     *)
(* them, each with its type, name, key, parent (0 for the root) and range.  *)

RECURSIVE Flatten(_, _, _, _), FlattenKids(_, _, _, _, _, _)
FlattenKids(n, i, id, start, nodes, text) ==
    LET t == text \o n.lits[i] IN
    IF i > Len(n.kids) THEN [nodes |-> nodes, text |-> t]
    ELSE LET k == Flatten(n.kids[i], start + Len(t), id, id + Len(nodes) + 1)
         IN  FlattenKids(n, i + 1, id, start, nodes \o k.nodes, t \o k.text)

Flatten(n, start, parent, id) ==
    LET r == FlattenKids(n, 1, id, start, <<>>, <<>>) IN
    [nodes |-> <<[type |-> n.type, name |-> n.name, key |-> n.key,
                  parent |-> parent, range |-> <<start, start + Len(r.text)>>]>>
               \o r.nodes,
     text |-> r.text]

-----------------------------------------------------------------------------
(* The tree, read as the visitor reads it. *)

\* null
Null == 0

Type(n) == ast[n].type
Start(n) == ast[n].range[1]
End(n) == ast[n].range[2]

\* the child nodes of n, in the order "for (key in object)" reaches them
Kids(n) ==
    LET S == {m \in 1..Len(ast) : ast[m].parent = n}
        RECURSIVE Asc(_)
        Asc(T) == IF T = {} THEN <<>>
                  ELSE LET m == CHOOSE x \in T : \A y \in T : x <= y
                       IN  <<m>> \o Asc(T \ {m})
    IN  Asc(S)

\* node[key] for a key that holds one node or null
Child(n, key) ==
    LET S == {m \in 1..Len(ast) : ast[m].parent = n /\ ast[m].key = key}
    IN  IF S = {} THEN Null ELSE CHOOSE m \in S : TRUE

RECURSIVE Parents(_)
\* the nodes of the parents chain traverse hands to the visitor, nearest first:
\* an array is not in it, and its last element has node null
Parents(n) ==
    IF ast[n].parent = Null THEN <<Null>>
    ELSE <<ast[n].parent>> \o Parents(ast[n].parent)

TrackingExpressions ==
    {"CallExpression", "AssignmentExpression", "BinaryExpression",
     "UpdateExpression", "UnaryExpression", "LogicalExpression",
     "MemberExpression", "NewExpression", "ThrowStatement", "MetaProperty",
     "ConditionalExpression", "YieldExpression"}

\* TrackingExpressions[type], 0 for undefined
TracingVal(type) == IF type \in TrackingExpressions THEN 1 ELSE 0

InjectableExpressions ==
    {"ExpressionStatement", "VariableDeclaration", "ReturnStatement",
     "ThrowStatement"}

InjectionType == {"BEFORE_NODE", "AT_BEGINNING", "INNER_BEGINNING"}

\* new InjectionContext(node, type)
InjectionContext(node, type) == [node |-> node, type |-> type]

\* no injection context (undefined)
Undefined == [node |-> Null, type |-> ""]

-----------------------------------------------------------------------------
(* InjectionCodeGenerators *)

IncrCall(value) ==
    NameText(IC) \o <<".","i","n","c","r","(">> \o Digits(value) \o <<")">>

CounterIncrFunc(value) == IncrCall(value) \o <<";">>

BlockStatementBeginAndCounterIncrFunc(value) ==
    IF value > 0 THEN <<"{">> \o IncrCall(value) \o <<";">> ELSE <<"{">>

BlockStatementEndAndCounterIncrFunc(value) ==
    IF value > 0 THEN IncrCall(value) \o <<";","}">> ELSE <<"}">>

InnerCounterIncrFunc(value) == IncrCall(value) \o <<" ","&","&"," ">>

\* record.func(record.value)
CallFunc(func, value) ==
    CASE func = "CounterIncrFunc" -> CounterIncrFunc(value)
      [] func = "BlockStatementBeginAndCounterIncrFunc" ->
            BlockStatementBeginAndCounterIncrFunc(value)
      [] func = "BlockStatementEndAndCounterIncrFunc" ->
            BlockStatementEndAndCounterIncrFunc(value)
      [] func = "InnerCounterIncrFunc" -> InnerCounterIncrFunc(value)

-----------------------------------------------------------------------------
(* The injection records. *)

NoRecords == [p \in {} |-> [value |-> 0, func |-> ""]]

\* a store that sets the weight of a record instead of adding to it
record_injection_info_set(records, pos, value, injection_func) ==
    [p \in DOMAIN records \cup {pos} |->
        IF p = pos THEN [value |-> value,
                         func |-> IF pos \in DOMAIN records THEN records[pos].func
                                  ELSE injection_func]
        ELSE records[p]]

\* a store that keeps the emitter of the last call at a position
record_injection_info_last(records, pos, value, injection_func) ==
    [p \in DOMAIN records \cup {pos} |->
        IF p = pos THEN [value |-> (IF pos \in DOMAIN records
                                    THEN records[pos].value ELSE 0) + value,
                         func |-> injection_func]
        ELSE records[p]]

record_injection_info(records, pos, value, injection_func) ==
    LET item == IF pos \in DOMAIN records THEN records[pos]
                ELSE [value |-> 0, func |-> injection_func]
    IN  [p \in DOMAIN records \cup {pos} |->
            IF p = pos THEN [item EXCEPT !.value = @ + value] ELSE records[p]]

ensure_block_statement(records, node) ==
    IF node = Null THEN records
    ELSE IF Type(node) # "BlockStatement"
    THEN record_injection_info(
             record_injection_info(records, Start(node), 0,
                                   "BlockStatementBeginAndCounterIncrFunc"),
             End(node), 0, "BlockStatementEndAndCounterIncrFunc")
    ELSE records

-----------------------------------------------------------------------------
(* The visitor. *)

disallowRedefineOfInstructionCounter(n) ==
    /\ Type(n) = "Identifier"
    /\ ast[n].name = IC
    /\ ast[n].parent # Null
    /\ Type(ast[n].parent) \in
          {"VariableDeclarator", "FunctionDeclaration", "FunctionExpression"}

RECURSIVE SearchParents(_, _)
\* the loop over parents: the first ancestor of an injectable type; reading
\* the type of the null node that ends the chain throws a TypeError
SearchParents(parents, i) ==
    IF i > Len(parents) THEN [error |-> "", node |-> Null]
    ELSE IF parents[i] = Null THEN [error |-> "TypeError", node |-> Null]
    ELSE IF Type(parents[i]) \in InjectableExpressions
    THEN [error |-> "", node |-> parents[i]]
    ELSE SearchParents(parents, i + 1)

\* the switch on the injection type: the pos of the record (-2 when the
\* type is unknown)
InjectionPos(injection_type, target_node) ==
    CASE injection_type = "BEFORE_NODE" -> Start(target_node)
      [] injection_type = "AT_BEGINNING" ->
            IF Type(target_node) = "BlockStatement"
            THEN Start(target_node) + 1
            ELSE Start(target_node)
      [] injection_type = "INNER_BEGINNING" -> Start(target_node)
      [] OTHER -> -2

\* a generator that is CounterIncrFunc whatever the injection type
GeneratorAlwaysCounterIncr(injection_type) == "CounterIncrFunc"

\* the switch on the injection type: the generator of the record
Generator(injection_type) ==
    IF injection_type = "INNER_BEGINNING" THEN "InnerCounterIncrFunc"
    ELSE "CounterIncrFunc"

\* the visitor on a node of a tracked type: the record it makes, or the error
\* it throws
Tracked(n, ctx) ==
    LET has_ctx == ctx # Undefined
        from_ctx == IF has_ctx THEN ctx.node ELSE Null
        injection_type == IF has_ctx THEN ctx.type ELSE "BEFORE_NODE"
        found == IF from_ctx # Null THEN [error |-> "", node |-> from_ctx]
                 ELSE IF Type(n) \in InjectableExpressions
                 THEN [error |-> "", node |-> n]
                 ELSE SearchParents(Parents(n), 1)
        target_node == found.node
    IN  IF ast[n].parent = Null
        THEN [error |-> "", pos |-> Start(n), func |-> "CounterIncrFunc"]
        ELSE IF found.error # ""
        THEN [error |-> found.error, pos |-> -1, func |-> ""]
        ELSE IF injection_type \notin InjectionType
        THEN [error |-> "Unknown Injection Type", pos |-> -1, func |-> ""]
        ELSE IF target_node = Null
        THEN [error |-> "TypeError", pos |-> -1, func |-> ""]
        ELSE [error |-> "", pos |-> InjectionPos(injection_type, target_node),
              func |-> Generator(injection_type)]

-----------------------------------------------------------------------------
(* traverse: one action per visit of a node.  work[1] is the call of        *)
(* traverse about to run its visitor; the calls for the node's children     *)
(* take its place, each with the injection context of its key.  The visits  *)
(* of the objects that are no nodes (an array of nodes, range, loc) change  *)
(* nothing and return no context: the elements of an array get the context *)
(* of the array's key and the parents chain of the array, which is what     *)
(* Descend and Parents give them.                                           *)

Visiting == pc = "traverse" /\ work # <<>>

node == work[1].node

injection_context_from_parent == work[1].ctx

\* injection_context ? injection_context[key] : injection_context_from_parent
Descend(injection_context, returned) ==
    LET kids == Kids(node) IN
    work' = [i \in 1..Len(kids) |->
                [node |-> kids[i],
                 ctx  |-> IF returned
                          THEN IF ast[kids[i]].key \in DOMAIN injection_context
                               THEN injection_context[ast[kids[i]].key]
                               ELSE Undefined
                          ELSE injection_context_from_parent]]
            \o Tail(work)

NoContexts == [k \in {} |-> Undefined]

UnchangedGeneration ==
    UNCHANGED <<source, ast, ordered_records, start_offset, traceable_source,
                calls, ncalled>>

\* the Error thrown when _instruction_counter is redefined
ReservedIdentifierError == "redefine _instruction_counter is now allowed."

VisitRedefine ==
    /\ Visiting
    /\ disallowRedefineOfInstructionCounter(node)
    /\ pc' = "done"
    /\ result' = ReservedIdentifierError
    /\ UNCHANGED <<work, injection_records, recorded>>
    /\ UnchangedGeneration

\* a node of a control-flow type: the bodies it guards, the contexts it returns
VisitControl(type, bodies, contexts) ==
    /\ Visiting
    /\ Type(node) = type
    /\ injection_records' =
          IF Len(bodies) = 1
          THEN ensure_block_statement(injection_records, bodies[1])
          ELSE IF Len(bodies) = 2
          THEN ensure_block_statement(
                   ensure_block_statement(injection_records, bodies[1]), bodies[2])
          ELSE injection_records
    /\ Descend(contexts, TRUE)
    /\ UNCHANGED <<pc, result, recorded>>
    /\ UnchangedGeneration

VisitIfStatement ==
    VisitControl("IfStatement",
        <<Child(node, "consequent"), Child(node, "alternate")>>,
        [k \in {"test"} |-> InjectionContext(Child(node, "test"), "INNER_BEGINNING")])

VisitForStatement ==
    VisitControl("ForStatement", <<Child(node, "body")>>,
        [k \in {"init", "test", "update"} |->
            IF k = "init" THEN InjectionContext(node, "BEFORE_NODE")
            ELSE InjectionContext(Child(node, k), "INNER_BEGINNING")])

VisitForInStatement ==
    VisitControl("ForInStatement", <<Child(node, "body")>>,
        [k \in {"left", "right"} |-> InjectionContext(node, "BEFORE_NODE")])

VisitForOfStatement ==
    VisitControl("ForOfStatement", <<Child(node, "body")>>,
        [k \in {"left", "right"} |-> InjectionContext(node, "BEFORE_NODE")])

VisitWhileStatement ==
    VisitControl("WhileStatement", <<Child(node, "body")>>,
        [k \in {"test"} |-> InjectionContext(Child(node, "test"), "INNER_BEGINNING")])

VisitDoWhileStatement ==
    VisitControl("DoWhileStatement", <<Child(node, "body")>>,
        [k \in {"test"} |-> InjectionContext(Child(node, "test"), "INNER_BEGINNING")])

VisitWithStatement ==
    VisitControl("WithStatement", <<Child(node, "body")>>,
        [k \in {"object"} |-> InjectionContext(node, "BEFORE_NODE")])

VisitSwitchStatement ==
    VisitControl("SwitchStatement", <<>>,
        [k \in {"discriminant"} |-> InjectionContext(node, "BEFORE_NODE")])

ControlFlowTypes ==
    {"IfStatement", "ForStatement", "ForInStatement", "ForOfStatement",
     "WhileStatement", "DoWhileStatement", "WithStatement", "SwitchStatement"}

\* not the tracking expression, ignore
VisitIgnored ==
    /\ Visiting
    /\ ~disallowRedefineOfInstructionCounter(node)
    /\ Type(node) \notin ControlFlowTypes
    /\ TracingVal(Type(node)) = 0
    /\ Descend(NoContexts, FALSE)
    /\ UNCHANGED <<pc, result, injection_records, recorded>>
    /\ UnchangedGeneration

VisitTracked ==
    /\ Visiting
    /\ Type(node) \notin ControlFlowTypes
    /\ TracingVal(Type(node)) # 0
    /\ LET t == Tracked(node, injection_context_from_parent) IN
         /\ t.error = ""
         /\ injection_records' =
               IF t.pos >= 0
               THEN record_injection_info(injection_records, t.pos,
                                          TracingVal(Type(node)), t.func)
               ELSE injection_records
         /\ recorded' = [m \in DOMAIN recorded \cup {node} |->
                            IF m = node THEN t.pos ELSE recorded[m]]
    /\ Descend(NoContexts, FALSE)
    /\ UNCHANGED <<pc, result>>
    /\ UnchangedGeneration

\* the visitor throws on a tracked node: no target node, or an unknown
\* injection type
VisitTrackedThrows ==
    /\ Visiting
    /\ Type(node) \notin ControlFlowTypes
    /\ TracingVal(Type(node)) # 0
    /\ LET t == Tracked(node, injection_context_from_parent) IN
         /\ t.error # ""
         /\ result' = t.error
    /\ pc' = "done"
    /\ UNCHANGED <<work, injection_records, recorded>>
    /\ UnchangedGeneration

-----------------------------------------------------------------------------
(* generate traceable source *)

RECURSIVE SortByPos(_)
\* Array.from(injection_records.values()) sorted by a.pos - b.pos
SortByPos(records) ==
    IF DOMAIN records = {} THEN <<>>
    ELSE LET p == CHOOSE x \in DOMAIN records : \A y \in DOMAIN records : x <= y
         IN  <<[pos |-> p, value |-> records[p].value, func |-> records[p].func]>>
             \o SortByPos([q \in DOMAIN records \ {p} |-> records[q]])

\* a forEach callback that leaves start_offset where it was
AppendRecordKeepStart(src, g) ==
    LET record == Head(g.records) IN
    [out     |-> g.out \o Slice(src, g.start, record.pos)
                       \o CallFunc(record.func, record.value),
     start   |-> g.start,
     records |-> Tail(g.records)]

\* one call of the forEach callback, on the first record of g.records
AppendRecord(src, g) ==
    LET record == Head(g.records) IN
    [out     |-> g.out \o Slice(src, g.start, record.pos)
                       \o CallFunc(record.func, record.value),
     start   |-> record.pos,
     records |-> Tail(g.records)]

RECURSIVE ForEachRecord(_, _)
ForEachRecord(src, g) ==
    IF g.records = <<>> THEN g ELSE ForEachRecord(src, AppendRecord(src, g))

\* the traceable source of src under the records
TraceableSource(src, records) ==
    LET g == ForEachRecord(src, [out |-> <<>>, start |-> 0,
                                 records |-> SortByPos(records)])
    IN  g.out \o Slice(src, g.start, Len(src))

SortRecords ==
    /\ pc \in {"traverse", "record"}
    /\ pc = "traverse" => work = <<>>
    /\ pc = "record" => ncalled = Len(calls)
    /\ ordered_records' = SortByPos(injection_records)
    /\ start_offset' = 0
    /\ traceable_source' = <<>>
    /\ pc' = "generate"
    /\ UNCHANGED <<source, ast, work, injection_records, recorded, result,
                   calls, ncalled>>

EmitRecord ==
    /\ pc = "generate"
    /\ ordered_records # <<>>
    /\ LET g == AppendRecord(source, [out |-> traceable_source,
                                      start |-> start_offset,
                                      records |-> ordered_records])
       IN  /\ traceable_source' = g.out
           /\ start_offset' = g.start
           /\ ordered_records' = g.records
    /\ UNCHANGED <<source, ast, pc, work, injection_records, recorded, result,
                   calls, ncalled>>

ReturnSource ==
    /\ pc = "generate"
    /\ ordered_records = <<>>
    /\ traceable_source' =
          traceable_source \o Slice(source, start_offset, Len(source))
    /\ pc' = "done"
    /\ result' = "returned"
    /\ UNCHANGED <<source, ast, work, injection_records, recorded,
                   ordered_records, start_offset, calls, ncalled>>

-----------------------------------------------------------------------------
(* processScript on a program of the model. *)

Init ==
    \E p \in Programs :
        LET parsed == Flatten(p, 0, Null, 1) IN
        /\ source = parsed.text
        /\ ast = parsed.nodes
        /\ pc = "traverse"
        /\ work = <<[node |-> 1, ctx |-> Undefined]>>
        /\ injection_records = NoRecords
        /\ recorded = [m \in {} |-> 0]
        /\ ordered_records = <<>>
        /\ start_offset = 0
        /\ traceable_source = <<>>
        /\ result = ""
        /\ calls = <<>>
        /\ ncalled = 0

Next ==
    \/ VisitRedefine
    \/ VisitIfStatement
    \/ VisitForStatement
    \/ VisitForInStatement
    \/ VisitForOfStatement
    \/ VisitWhileStatement
    \/ VisitDoWhileStatement
    \/ VisitWithStatement
    \/ VisitSwitchStatement
    \/ VisitIgnored
    \/ VisitTracked
    \/ VisitTrackedThrows
    \/ SortRecords
    \/ EmitRecord
    \/ ReturnSource

Spec == Init /\ [][Next]_vars

-----------------------------------------------------------------------------
(* The record store alone: calls of record_injection_info in the order of   *)
(* the sequence calls, then the generation over a source of MaxPos          *)
(* characters.                                                              *)

StoreCalls ==
    {[pos |-> p, value |-> 0, func |-> f] :
        p \in 0..MaxPos,
        f \in {"BlockStatementBeginAndCounterIncrFunc",
               "BlockStatementEndAndCounterIncrFunc"}}
    \cup
    {[pos |-> p, value |-> 1, func |-> f] :
        p \in 0..MaxPos, f \in {"CounterIncrFunc", "InnerCounterIncrFunc"}}

RecordCall ==
    /\ pc = "record"
    /\ ncalled < Len(calls)
    /\ LET c == calls[ncalled + 1] IN
       injection_records' =
           record_injection_info(injection_records, c.pos, c.value, c.func)
    /\ ncalled' = ncalled + 1
    /\ UNCHANGED <<source, ast, pc, work, recorded, ordered_records,
                   start_offset, traceable_source, result, calls>>

StoreInit ==
    /\ calls \in UNION {[1..k -> StoreCalls] : k \in 0..MaxCalls}
    /\ ncalled = 0
    /\ source = [i \in 1..MaxPos |-> "x"]
    /\ ast = <<>>
    /\ pc = "record"
    /\ work = <<>>
    /\ injection_records = NoRecords
    /\ recorded = [m \in {} |-> 0]
    /\ ordered_records = <<>>
    /\ start_offset = 0
    /\ traceable_source = <<>>
    /\ result = ""

StoreNext ==
    \/ RecordCall
    \/ SortRecords
    \/ EmitRecord
    \/ ReturnSource

StoreSpec == StoreInit /\ [][StoreNext]_vars

-----------------------------------------------------------------------------
(* What the properties speak of. *)

Nodes == 1..Len(ast)

Returned == pc = "done" /\ result = "returned"

TrackedNodes == {n \in Nodes : Type(n) \in TrackingExpressions}

\* the string the record at pos p inserts
Inserted(p) == CallFunc(injection_records[p].func, injection_records[p].value)

RECURSIVE InsertedLen(_)
\* the length of the strings the records at the positions S insert
InsertedLen(S) ==
    IF S = {} THEN 0
    ELSE LET p == CHOOSE q \in S : TRUE
         IN  Len(Inserted(p)) + InsertedLen(S \ {p})

RECURSIVE SumOfValues(_)
\* the sum of the weights of the records at the positions S
SumOfValues(S) ==
    IF S = {} THEN 0
    ELSE LET p == CHOOSE q \in S : TRUE
         IN  injection_records[p].value + SumOfValues(S \ {p})

\* the characters inserted before offset p, and up to it
ShiftBefore(p) == InsertedLen({q \in DOMAIN injection_records : q < p})
ShiftUpTo(p) == InsertedLen({q \in DOMAIN injection_records : q <= p})

\* what the output holds at the place of the record at p
OutputAt(p) ==
    IF p \in DOMAIN injection_records
    THEN SubSeq(traceable_source, p + ShiftBefore(p) + 1,
                p + ShiftBefore(p) + Len(Inserted(p)))
    ELSE <<>>

CountChar(c, s) == Cardinality({i \in 1..Len(s) : s[i] = c})

\* a body, consequent or alternate that is not a block
BareBodies ==
    {n \in Nodes :
        /\ ast[n].parent # Null
        /\ Type(n) # "BlockStatement"
        /\ \/ /\ Type(ast[n].parent) = "IfStatement"
              /\ ast[n].key \in {"consequent", "alternate"}
           \/ /\ Type(ast[n].parent) \in
                    {"ForStatement", "ForInStatement", "ForOfStatement",
                     "WhileStatement", "DoWhileStatement", "WithStatement"}
              /\ ast[n].key = "body"}

\* the header children whose tracked nodes are counted inside the expression
InnerKeys(type) ==
    CASE type \in {"IfStatement", "WhileStatement", "DoWhileStatement"} -> {"test"}
      [] type = "ForStatement" -> {"test", "update"}
      [] OTHER -> {}

\* the header children whose tracked nodes are counted before the statement
BeforeKeys(type) ==
    CASE type = "ForStatement" -> {"init"}
      [] type \in {"ForInStatement", "ForOfStatement"} -> {"left", "right"}
      [] type = "WithStatement" -> {"object"}
      [] type = "SwitchStatement" -> {"discriminant"}
      [] OTHER -> {}

RECURSIVE ControlChild(_)
\* the child of the nearest control-flow statement above n that holds n
\* (Null when there is none)
ControlChild(n) ==
    IF ast[n].parent = Null THEN Null
    ELSE IF Type(ast[n].parent) \in ControlFlowTypes THEN n
    ELSE ControlChild(ast[n].parent)

FunctionTypes ==
    {"FunctionDeclaration", "FunctionExpression", "ArrowFunctionExpression"}

RECURSIVE Region(_)
\* where n is executed: the branch, body, loop or if header, switch case or
\* function that holds it, Null for the top level of the program
Region(n) ==
    LET p == ast[n].parent IN
    IF p = Null THEN Null
    ELSE IF Type(p) \in ControlFlowTypes
    THEN IF ast[n].key \in BeforeKeys(Type(p)) THEN Region(p) ELSE n
    ELSE IF Type(p) \in FunctionTypes THEN p
    ELSE Region(p)

\* where the increment inserted at pos p is executed
Landing(p) ==
    IF injection_records[p].func = "BlockStatementEndAndCounterIncrFunc"
    THEN LET B == {b \in BareBodies : End(b) = p}
         IN  CHOOSE b \in B : \A c \in B : c <= b
    ELSE LET S == {m \in Nodes : m > 1 /\ Start(m) = p}
         IN  Region(CHOOSE m \in S : \A k \in S : m <= k)

IsIC(n) == Type(n) = "Identifier" /\ ast[n].name = IC

\* n is an identifier _instruction_counter that the program binds
Binds(n) ==
    /\ IsIC(n)
    /\ ast[n].parent # Null
    /\ LET t == Type(ast[n].parent)
           k == ast[n].key
       IN  \/ t = "VariableDeclarator" /\ k = "id"
           \/ t \in {"FunctionDeclaration", "FunctionExpression"}
              /\ k \in {"id", "params"}
           \/ t = "ArrowFunctionExpression" /\ k = "params"
           \/ t = "CatchClause" /\ k = "param"
           \/ t = "ClassDeclaration" /\ k = "id"
           \/ t = "ArrayPattern" /\ k = "elements"
           \/ t = "AssignmentPattern" /\ k = "left"

\* n is the bound name of a variable declarator, function declaration or
\* function expression
BindsByName(n) ==
    /\ IsIC(n)
    /\ ast[n].parent # Null
    /\ Type(ast[n].parent) \in
          {"VariableDeclarator", "FunctionDeclaration", "FunctionExpression"}
    /\ ast[n].key = "id"

-----------------------------------------------------------------------------
(* Properties of processScript. *)

\* C1: whenever processScript returns, the output is the source with the
\* strings of the records inserted at their positions and nothing else: every
\* position lies in the source, the output is as long as the source and the
\* inserted strings together, the output holds each record's string at the
\* record's place, and each character of the source follows the strings
\* inserted up to its offset.
C1_InsertsOnly ==
    Returned =>
        /\ \A p \in DOMAIN injection_records : 0 <= p /\ p <= Len(source)
        /\ Len(traceable_source) =
              Len(source) + InsertedLen(DOMAIN injection_records)
        /\ \A p \in DOMAIN injection_records : OutputAt(p) = Inserted(p)
        /\ \A i \in 1..Len(source) :
              traceable_source[i + ShiftUpTo(i - 1)] = source[i]

C1_Witness ==
    /\ Returned
    /\ Cardinality(DOMAIN injection_records) >= 3
    /\ \E p \in DOMAIN injection_records :
          injection_records[p].value > 0 /\ 0 < p /\ p < Len(source)

\* C2: whenever processScript returns, at every offset the output holds as
\* many inserted "{" as bare bodies start there and as many inserted "}" as
\* bare bodies end there.
C2_BracesBalance ==
    Returned =>
        \A p \in 0..Len(source) :
            /\ CountChar("{", OutputAt(p)) =
                  Cardinality({b \in BareBodies : Start(b) = p})
            /\ CountChar("}", OutputAt(p)) =
                  Cardinality({b \in BareBodies : End(b) = p})

\* C3: whenever processScript returns, the increment that counts a tracked
\* node is executed where the node is: in the same branch, body, header,
\* switch case or function.
C3_WeightInOwnBranch ==
    Returned => \A n \in TrackedNodes : Landing(recorded[n]) = Region(n)

\* C4: processScript ends with a returned string or with the
\* reserved-identifier error, and with nothing else.
C4_OnlyReservedError ==
    pc = "done" => result \in {"returned", ReservedIdentifierError}

\* C5: whenever processScript returns, every tracked node was recorded at
\* one position, no other node was, each record's weight is the number of
\* tracked nodes recorded at its position, and the weights sum to the
\* number of tracked nodes.
C5_EveryTrackedNodeCounted ==
    Returned =>
        /\ DOMAIN recorded = TrackedNodes
        /\ \A n \in TrackedNodes : recorded[n] \in DOMAIN injection_records
        /\ \A p \in DOMAIN injection_records :
              injection_records[p].value =
                  Cardinality({n \in TrackedNodes : recorded[n] = p})
        /\ SumOfValues(DOMAIN injection_records) = Cardinality(TrackedNodes)

C5_Witness ==
    /\ Returned
    /\ Cardinality(TrackedNodes) >= 3
    /\ \E p \in DOMAIN injection_records : injection_records[p].value >= 2
    /\ \E n \in Nodes : n \notin TrackedNodes /\ Type(n) = "Identifier"

\* C6: a program that processScript accepts binds _instruction_counter
\* nowhere.
C6_AcceptedNeverBinds ==
    Returned => \A n \in Nodes : ~Binds(n)

\* C7: a program that binds _instruction_counter nowhere does not get the
\* reserved-identifier error.
C7_ReadsAccepted ==
    (pc = "done" /\ \A n \in Nodes : ~Binds(n))
        => result # ReservedIdentifierError

\* C8: a program in which a variable declarator, function declaration or
\* function expression has the bound name _instruction_counter ends with the
\* reserved-identifier error.
C8_BindingRejected ==
    (pc = "done" /\ \E n \in Nodes : BindsByName(n))
        => result = ReservedIdentifierError

\* the tracked nodes under the header child m of a control-flow statement
TrackedUnder(m) == {n \in TrackedNodes : ControlChild(n) = m}

\* the tracked nodes under the header children of statement s that are
\* counted before s
TrackedBefore(s) ==
    {n \in TrackedNodes :
        /\ ControlChild(n) # Null
        /\ ast[ControlChild(n)].parent = s
        /\ ast[ControlChild(n)].key \in BeforeKeys(Type(s))}

\* C10 as stated: whenever processScript returns, a tracked node under a
\* test or update is recorded at the start of that expression, in a record
\* with the InnerCounterIncrFunc emitter, and one under an init, left, right,
\* object or discriminant at the start of the statement; the weight of the
\* record is the number of tracked nodes of that one header child.
C10_HeaderChildRecord ==
    Returned =>
        \A n \in TrackedNodes :
            LET m == ControlChild(n) IN
            m # Null =>
                LET s == ast[m].parent IN
                /\ ast[m].key \in InnerKeys(Type(s)) =>
                      /\ recorded[n] = Start(m)
                      /\ injection_records[Start(m)].func = "InnerCounterIncrFunc"
                      /\ injection_records[Start(m)].value =
                            Cardinality(TrackedUnder(m))
                /\ ast[m].key \in BeforeKeys(Type(s)) =>
                      /\ recorded[n] = Start(s)
                      /\ injection_records[Start(s)].value =
                            Cardinality(TrackedUnder(m))

\* C10 as amended: the same, but the weight of the record at the start of
\* the statement is the number of tracked nodes of all the header children
\* of the statement that are counted there (left and right together).
C10_HeaderRecord ==
    Returned =>
        \A n \in TrackedNodes :
            LET m == ControlChild(n) IN
            m # Null =>
                LET s == ast[m].parent IN
                /\ ast[m].key \in InnerKeys(Type(s)) =>
                      /\ recorded[n] = Start(m)
                      /\ injection_records[Start(m)].func = "InnerCounterIncrFunc"
                      /\ injection_records[Start(m)].value =
                            Cardinality(TrackedUnder(m))
                /\ ast[m].key \in BeforeKeys(Type(s)) =>
                      /\ recorded[n] = Start(s)
                      /\ injection_records[Start(s)].value =
                            Cardinality(TrackedBefore(s))

C10_Witness ==
    /\ Returned
    /\ \E s \in Nodes :
          /\ Type(s) = "ForStatement"
          /\ TrackedBefore(s) # {}
          /\ \E m \in Nodes :
                ast[m].parent = s /\ ast[m].key = "update" /\ TrackedUnder(m) # {}

-----------------------------------------------------------------------------
(* Properties of the record store. *)

Perms(n) == {q \in [1..n -> 1..n] : \A i, j \in 1..n : q[i] = q[j] => i = j}

Permuted(cs, q) == [i \in 1..Len(cs) |-> cs[q[i]]]

RECURSIVE RecordAll(_, _, _)
\* the store after the calls cs[i], cs[i+1], ... on records
RecordAll(cs, i, records) ==
    IF i > Len(cs) THEN records
    ELSE RecordAll(cs, i + 1,
             record_injection_info(records, cs[i].pos, cs[i].value, cs[i].func))

RECURSIVE TotalValue(_, _, _)
\* the sum of the weights of the calls cs[i], cs[i+1], ... at pos p
TotalValue(cs, i, p) ==
    IF i > Len(cs) THEN 0
    ELSE (IF cs[i].pos = p THEN cs[i].value ELSE 0) + TotalValue(cs, i + 1, p)

\* the emitter of the first of the calls cs at pos p
FirstFunc(cs, p) ==
    LET I == {i \in 1..Len(cs) : cs[i].pos = p}
    IN  cs[CHOOSE i \in I : \A j \in I : i <= j].func

\* the calls at one position all carry the same emitter
OneFuncPerPos(cs) ==
    \A i, j \in 1..Len(cs) : cs[i].pos = cs[j].pos => cs[i].func = cs[j].func

\* C9 as stated: every permutation of the calls leaves the mapping and the
\* emitted string that the calls in their own order left.
C9_OrderInsensitive ==
    pc = "done" =>
        \A q \in Perms(Len(calls)) :
            LET r == RecordAll(Permuted(calls, q), 1, NoRecords) IN
            /\ r = injection_records
            /\ TraceableSource(source, r) = traceable_source

\* C9 as amended: every permutation of the calls leaves the same positions
\* and the same weight at each; the emitter at a position is the one of the
\* first call made at it, so the mapping and the emitted string are the same
\* when the calls at each position carry one emitter.
C9_WeightsOrderInsensitive ==
    pc = "done" =>
        /\ DOMAIN injection_records = {calls[i].pos : i \in 1..Len(calls)}
        /\ \A p \in DOMAIN injection_records :
              /\ injection_records[p].value = TotalValue(calls, 1, p)
              /\ injection_records[p].func = FirstFunc(calls, p)
        /\ \A q \in Perms(Len(calls)) :
              LET cs == Permuted(calls, q)
                  r == RecordAll(cs, 1, NoRecords)
              IN  /\ DOMAIN r = DOMAIN injection_records
                  /\ \A p \in DOMAIN r :
                        /\ r[p].value = injection_records[p].value
                        /\ r[p].func = FirstFunc(cs, p)
                  /\ OneFuncPerPos(calls) =>
                        /\ r = injection_records
                        /\ TraceableSource(source, r) = traceable_source

C9_Witness ==
    /\ pc = "done"
    /\ Len(calls) >= 3
    /\ \E i, j \in 1..Len(calls) :
          /\ i < j
          /\ calls[i].pos = calls[j].pos
          /\ calls[i].func = "BlockStatementEndAndCounterIncrFunc"
          /\ calls[j].func = "CounterIncrFunc"
    /\ \E p \in DOMAIN injection_records : injection_records[p].value >= 1

====
